---- MODULE Spec2Model ----
(***************************************************************************)
(* In-memory user store (internal/service/user.go), its request handlers   *)
(* (internal/handler/handler.go) and the validation rules of               *)
(* internal/model/user.go.                                                 *)
(*                                                                         *)
(* Every handler goroutine p runs                                          *)
(*   Handler<Op>(p)        parse, bind, validate, call into the store      *)
(*   Lock(p) / RLock(p)    acquire the store's RWMutex                     *)
(*   <Op>(p)               the store method's body and its deferred unlock *)
(*   Handler<Op>Return(p), EncodeUser(p)                                   *)
(*                         map the store's result to a status, serialise   *)
(* The store returns *model.User pointers into its own map, so records     *)
(* live in a heap that the handlers read after the lock is released.       *)
(***************************************************************************)
EXTENDS Integers, Sequences, FiniteSets, TLC

VARIABLES
    users,      \* UserService.users: map id -> address of a model.User
    nextID,     \* UserService.nextID
    mutex,      \* UserService.mutex: [writer, readers]
    heap,       \* allocated model.User objects, by address (1..Len(heap))
    clock,      \* the last reading time.Now() returned
    pc,         \* per goroutine: idle, waiting, locked, checked, returned, encoding
    req,        \* per goroutine: the call into the store
    ret,        \* per goroutine: what the store method returned
    resp,       \* per goroutine: the response body being encoded
    out,        \* the response the last step completed, if it completed one
    createdIDs, \* history: ids returned by successful CreateUser calls, in order
    deletedIDs, \* history: ids removed by successful DeleteUser calls
    returned,   \* history: the value of *user at the moment the store returned it
    session,    \* a scripted client: the responses it has received so far
    config      \* Handler.config: the configuration the handler was built with

vars == <<users, nextID, mutex, heap, clock, pc, req, ret, resp, out,
          createdIDs, deletedIDs, returned, session, config>>

storeVars == <<users, nextID, heap, clock>>
histVars == <<createdIDs, deletedIDs>>

----------------------------------------------------------------------------
(* Bounds of the model *)

\* CreateUser requests are accepted while fewer than MaxUsers were allocated
MaxUsers == 2
\* time.Now() stops advancing at MaxClock
MaxClock == 2
\* width of Go's int in the model (64 in the build), two's complement
IntBits == 8
\* records in the store when the runs of direct store calls start
MaxPreload == 2

\* the goroutines, and those that serve requests concurrently
Goroutines == {"g1", "g2", "g3"}
Procs == {"g1", "g2"}
NoProc == "none"

----------------------------------------------------------------------------
(* Go integers *)

MaxInt == 2^(IntBits - 1) - 1
MinInt == -(2^(IntBits - 1))

\* the value an int holds after an arithmetic result n (wraps around)
Wrap(n) == ((n - MinInt) % (2^IntBits)) + MinInt

\* Go's integer division truncates toward zero
GoDiv(a, b) ==
    IF (a >= 0) = (b > 0) \/ a % b = 0 THEN Wrap(a \div b) ELSE Wrap((a \div b) + 1)

Min(a, b) == IF a <= b THEN a ELSE b

----------------------------------------------------------------------------
(* net/http status codes used by the handlers *)

StatusOK == 200
StatusCreated == 201
StatusNoContent == 204
StatusBadRequest == 400
StatusNotFound == 404
StatusConflict == 409
StatusInternalServerError == 500

----------------------------------------------------------------------------
(* strconv.Atoi on a path or query parameter, given as its characters *)

Digits == <<"0", "1", "2", "3", "4", "5", "6", "7", "8", "9">>
IsDigit(c) == \E i \in 1..10 : Digits[i] = c
DigitVal(c) == (CHOOSE i \in 1..10 : Digits[i] = c) - 1

RECURSIVE ParseDigits(_, _)
\* the number the digits s denote after the prefix value acc; -1 when out of range
ParseDigits(s, acc) ==
    IF s = <<>> THEN acc
    ELSE IF acc * 10 + DigitVal(Head(s)) > MaxInt + 1 THEN -1
    ELSE ParseDigits(Tail(s), acc * 10 + DigitVal(Head(s)))

\* [ok |-> FALSE] is Atoi's error; otherwise val is the parsed int
Atoi(s) ==
    LET signed == s # <<>> /\ Head(s) \in {"+", "-"}
        neg == signed /\ Head(s) = "-"
        ds == IF signed THEN Tail(s) ELSE s
        n == ParseDigits(ds, 0)
    IN  IF ds = <<>> \/ (\E i \in 1..Len(ds) : ~IsDigit(ds[i])) \/ n = -1
            \/ (~neg /\ n > MaxInt)
        THEN [ok |-> FALSE, val |-> 0]
        ELSE [ok |-> TRUE, val |-> IF neg THEN -n ELSE n]

----------------------------------------------------------------------------
(* internal/model/user.go: values, payloads and the validator rules *)

\* a nil pointer of an UpdateUserRequest field is <<>>, a set pointer is <<v>>
Nil == <<>>
Ptr(v) == <<v>>
Deref(ptr) == ptr[1]

\* strings the validator's "email" rule accepts, among those the model uses
WellFormedEmails == {"a@x.com", "b@x.com", "c@x.com"}
\* strings the validator's "e164" rule accepts, among those the model uses
WellFormedPhones == {"+1234567890"}
StatusValues == {"active", "inactive", "suspended"}

NoTag == [tag |-> "", param |-> ""]
Tag(t, param) == [tag |-> t, param |-> param]

\* validate:"required,email"
EmailRule(s) ==
    IF s = "" THEN Tag("required", "")
    ELSE IF s \notin WellFormedEmails THEN Tag("email", "")
    ELSE NoTag

\* validate:"min=2,max=50" on a string
NameLenRule(s) ==
    IF Len(s) < 2 THEN Tag("min", "2")
    ELSE IF Len(s) > 50 THEN Tag("max", "50")
    ELSE NoTag

\* validate:"required,min=2,max=50"
NameRule(s) == IF s = "" THEN Tag("required", "") ELSE NameLenRule(s)

\* validate:"min=1,max=150" on an int
AgeRangeRule(n) ==
    IF n < 1 THEN Tag("min", "1")
    ELSE IF n > 150 THEN Tag("max", "150")
    ELSE NoTag

\* validate:"required,min=1,max=150"
AgeRule(n) == IF n = 0 THEN Tag("required", "") ELSE AgeRangeRule(n)

\* validate:"omitempty,e164" on a string
PhoneRule(s) ==
    IF s = "" THEN NoTag
    ELSE IF s \notin WellFormedPhones THEN Tag("e164", "")
    ELSE NoTag

\* StatusRule as it would be without the oneof tag
StatusRule_Any(s) == NoTag

\* validate:"oneof=active inactive suspended"
StatusRule(s) ==
    IF s \notin StatusValues THEN Tag("oneof", "active inactive suspended") ELSE NoTag

CreateFields == {"Email", "FirstName", "LastName", "Age", "Phone"}
UpdateFields == CreateFields \cup {"Status"}

\* ValidateStruct on a CreateUserRequest: the first failing tag of each field
CreateUserRequestRules(r) ==
    [f \in CreateFields |->
        CASE f = "Email" -> EmailRule(r.Email)
          [] f = "FirstName" -> NameRule(r.FirstName)
          [] f = "LastName" -> NameRule(r.LastName)
          [] f = "Age" -> AgeRule(r.Age)
          [] f = "Phone" -> PhoneRule(r.Phone)]

\* UpdateUserRequestRules as it would be if the tags began with "required"
UpdateUserRequestRules_Required(r) ==
    [f \in UpdateFields |->
        IF r[f] = Nil THEN Tag("required", "")
        ELSE CASE f = "Email" ->
                    IF Deref(r.Email) \notin WellFormedEmails
                    THEN Tag("email", "") ELSE NoTag
               [] f = "FirstName" -> NameLenRule(Deref(r.FirstName))
               [] f = "LastName" -> NameLenRule(Deref(r.LastName))
               [] f = "Age" -> AgeRangeRule(Deref(r.Age))
               [] f = "Phone" ->
                    IF Deref(r.Phone) \notin WellFormedPhones
                    THEN Tag("e164", "") ELSE NoTag
               [] f = "Status" -> StatusRule(Deref(r.Status))]

\* ValidateStruct on an UpdateUserRequest: "omitempty" skips a nil pointer; a set
\* pointer has a value, so the rest of the field's tags run on what it points to
UpdateUserRequestRules(r) ==
    [f \in UpdateFields |->
        IF r[f] = Nil THEN NoTag
        ELSE CASE f = "Email" ->
                    IF Deref(r.Email) \notin WellFormedEmails
                    THEN Tag("email", "") ELSE NoTag
               [] f = "FirstName" -> NameLenRule(Deref(r.FirstName))
               [] f = "LastName" -> NameLenRule(Deref(r.LastName))
               [] f = "Age" -> AgeRangeRule(Deref(r.Age))
               [] f = "Phone" ->
                    IF Deref(r.Phone) \notin WellFormedPhones
                    THEN Tag("e164", "") ELSE NoTag
               [] f = "Status" -> StatusRule(Deref(r.Status))]

\* Violations as it would be if validation stopped at the first failing field
Violations_FirstOnly(rules) ==
    LET failing == {f \in DOMAIN rules : rules[f] # NoTag}
    IN  IF failing = {} THEN {} ELSE {CHOOSE f \in failing : TRUE}

\* the fields a rule set rejects (validator.ValidationErrors, by field)
Violations(rules) == {f \in DOMAIN rules : rules[f] # NoTag}

\* GetValidationErrors: field -> message
GetValidationErrors(rules) ==
    [f \in Violations(rules) |->
        LET t == rules[f].tag
            param == rules[f].param
        IN  CASE t = "required" -> "This field is required"
              [] t = "email" -> "Must be a valid email address"
              [] t = "min" -> "Must be at least " \o param \o " characters long"
              [] t = "max" -> "Must be at most " \o param \o " characters long"
              [] t = "oneof" -> "Must be one of: " \o param
              [] t = "e164" -> "Must be a valid phone number in E164 format"
              [] OTHER -> "Invalid value"]

----------------------------------------------------------------------------
(* The requests the environment sends *)

CreatePayload(email, first, last, age, phone) ==
    [Email |-> email, FirstName |-> first, LastName |-> last, Age |-> age,
     Phone |-> phone]

UpdatePayload(email, first, last, age, phone, status) ==
    [Email |-> email, FirstName |-> first, LastName |-> last, Age |-> age,
     Phone |-> phone, Status |-> status]

\* a body c.Bind cannot decode
Malformed == [bind |-> FALSE]
Body(payload) == [bind |-> TRUE, payload |-> payload]

\* request inputs of the concurrent runs
PostBodies ==
    {Body(CreatePayload("a@x.com", "Ann", "Lee", 30, "")),
     Body(CreatePayload("b@x.com", "Ann", "Lee", 30, ""))}
PutBodies ==
    {Body(UpdatePayload(Ptr("a@x.com"), Nil, Nil, Nil, Nil, Nil)),
     Body(UpdatePayload(Ptr("b@x.com"), Nil, Nil, Ptr(31), Nil, Nil))}
IdParams == {<<"1">>, <<"2">>}
PageParams == {<<"1">>}
PerPageParams == {<<"1">>}

\* request inputs of the one-goroutine runs with a running clock
ClockPutBodies ==
    PutBodies
    \cup {Body(UpdatePayload(Nil, Nil, Nil, Nil, Nil, Nil)),
          Body(UpdatePayload(Nil, Ptr("Bob"), Ptr("Ray"), Nil, Ptr("+1234567890"),
                             Ptr("inactive")))}

\* request inputs of the one-goroutine runs
AllPostBodies ==
    PostBodies
    \cup {Malformed,
          Body(CreatePayload("invalid-email", "John", "Doe", 25, "")),
          Body(CreatePayload("", "A", "Lee", 0, "12345")),
          Body(CreatePayload("a@x.com", "Ann", "Lee", 151, "+1234567890")),
          Body(CreatePayload("c@x.com", "Bob", "Ray", 25, "+1234567890"))}
AllPutBodies ==
    PutBodies
    \cup {Malformed,
          Body(UpdatePayload(Nil, Nil, Nil, Nil, Nil, Nil)),
          Body(UpdatePayload(Nil, Ptr("Bob"), Ptr("Ray"), Nil, Ptr("+1234567890"),
                             Ptr("inactive"))),
          Body(UpdatePayload(Nil, Nil, Nil, Ptr(0), Nil, Ptr("deleted"))),
          Body(UpdatePayload(Ptr(""), Ptr("B"), Nil, Nil, Nil, Nil)),
          Body(UpdatePayload(Nil, Nil, Nil, Nil, Ptr("12345"), Nil)),
          Body(UpdatePayload(Nil, Nil, Nil, Nil, Nil, Ptr(""))),
          Body(UpdatePayload(Nil, Nil, Nil, Nil, Nil, Ptr("suspended")))}
AllIdParams ==
    IdParams \cup {<<"7">>, <<"-", "1">>, <<"a", "b", "c">>, <<>>, <<"9", "9", "9">>}
AllPageParams == {<<>>, <<"2">>, <<"0">>, <<"x">>, <<"-", "3">>, <<"9", "9", "9">>}
AllPerPageParams ==
    {<<>>, <<"2">>, <<"1", "0", "1">>, <<"0">>, <<"1", "0", "0">>, <<"-", "1">>, <<"1", "x">>}

----------------------------------------------------------------------------
(* Shapes of the per-goroutine state *)

NoUser == [ID |-> 0]
NoList == [panic |-> FALSE, Users |-> <<>>,
           Meta |-> [Page |-> 0, PerPage |-> 0, Total |-> 0, TotalPages |-> 0]]
NoReq == [op |-> "none"]
\* user is an address (0 is nil), err is the error's message ("" is nil)
NoRet == [user |-> 0, err |-> "", list |-> NoList]
NoBody == [ID |-> 0]
NoOut == [proc |-> NoProc]

RetUser(addr) == [user |-> addr, err |-> "", list |-> NoList]
RetErr(msg) == [user |-> 0, err |-> msg, list |-> NoList]
RetList(l) == [user |-> 0, err |-> "", list |-> l]

ErrorResponse(status, msg) == [status |-> status, body |-> [error |-> msg]]

\* the response goroutine p completes: of which handler, for which store call with
\* which result, and what *user held when the store returned it
Written(p, handler, response) ==
    [proc |-> p, handler |-> handler, req |-> req[p], ret |-> ret[p],
     returned |-> returned[p], status |-> response.status, body |-> response.body]

----------------------------------------------------------------------------
(* NewUserService *)

Idle ==
    /\ pc = [p \in Goroutines |-> "idle"]
    /\ req = [p \in Goroutines |-> NoReq]
    /\ ret = [p \in Goroutines |-> NoRet]
    /\ resp = [p \in Goroutines |-> NoBody]
    /\ returned = [p \in Goroutines |-> NoUser]
    /\ out = NoOut
    /\ mutex = [writer |-> NoProc, readers |-> {}]

\* config.setDefaults: the application's name and version
DefaultConfig == [App |-> [Name |-> "golang-server-template", Version |-> "1.0.0"]]
\* the configurations a handler is built with
Configs ==
    {DefaultConfig,
     [App |-> [Name |-> "test-app", Version |-> "1.0.0"]],
     [App |-> [Name |-> "test-app", Version |-> "2.1.0"]]}

\* the clients send what they like and keep no script
NoSession == [scripted |-> FALSE, received |-> <<>>]

\* the scripted client, if there is one, receives the response
Receive(response) ==
    session' = IF session.scripted
               THEN [session EXCEPT !.received =
                        Append(@, [status |-> response.status, body |-> response.body])]
               ELSE session

NewUserService ==
    /\ users = <<>>
    /\ nextID = 1
    /\ heap = <<>>
    /\ createdIDs = <<>>
    /\ deletedIDs = {}

\* the concurrent runs fit between two readings of the clock
Init ==
    /\ NewUserService
    /\ clock = MaxClock
    /\ Idle
    /\ session = NoSession
    /\ config = DefaultConfig

----------------------------------------------------------------------------
(* sync.RWMutex *)

\* Lock as it would be if it did not wait for the holders of the lock
Lock_NoExclusion(p) ==
    /\ pc[p] = "waiting"
    /\ req[p].op \in {"create", "update", "delete"}
    /\ mutex' = [mutex EXCEPT !.writer = p]
    /\ pc' = [pc EXCEPT ![p] = "locked"]
    /\ out' = NoOut
    /\ UNCHANGED <<storeVars, histVars, req, ret, resp, returned, session, config>>

Lock(p) ==
    /\ pc[p] = "waiting"
    /\ req[p].op \in {"create", "update", "delete"}
    /\ mutex.writer = NoProc
    /\ mutex.readers = {}
    /\ mutex' = [mutex EXCEPT !.writer = p]
    /\ pc' = [pc EXCEPT ![p] = "locked"]
    /\ out' = NoOut
    /\ UNCHANGED <<storeVars, histVars, req, ret, resp, returned, session, config>>

\* RLock as it would be if it did not wait for the writer
RLock_IgnoresWriter(p) ==
    /\ pc[p] = "waiting"
    /\ req[p].op \in {"get", "list"}
    /\ mutex' = [mutex EXCEPT !.readers = @ \cup {p}]
    /\ pc' = [pc EXCEPT ![p] = "locked"]
    /\ out' = NoOut
    /\ UNCHANGED <<storeVars, histVars, req, ret, resp, returned, session, config>>

RLock(p) ==
    /\ pc[p] = "waiting"
    /\ req[p].op \in {"get", "list"}
    /\ mutex.writer = NoProc
    /\ mutex' = [mutex EXCEPT !.readers = @ \cup {p}]
    /\ pc' = [pc EXCEPT ![p] = "locked"]
    /\ out' = NoOut
    /\ UNCHANGED <<storeVars, histVars, req, ret, resp, returned, session, config>>

\* Unlock as it would be if a return path left without the deferred unlock
Unlock_KeepsLock(p) == mutex

\* the deferred s.mutex.Unlock()
Unlock(p) == [mutex EXCEPT !.writer = NoProc]
\* the deferred s.mutex.RUnlock()
RUnlock(p) == [mutex EXCEPT !.readers = @ \ {p}]

\* the method of goroutine p returns result: the deferred unlock runs
Return(p, result, unlocked) ==
    /\ ret' = [ret EXCEPT ![p] = result]
    /\ mutex' = unlocked
    /\ pc' = [pc EXCEPT ![p] = "returned"]
    /\ out' = NoOut
    /\ UNCHANGED <<req, resp, session, config>>

----------------------------------------------------------------------------
(* time.Now(): a reading not before the last one *)

Now(last) == last..Min(last + 1, MaxClock)

----------------------------------------------------------------------------
(* UserService: helpers of the method bodies *)

\* the record a pointer of the map refers to
UserAt(id) == heap[users[id]]

\* CreateUser's scan for the email
\* the email scan of CreateUser as it would be if deleted records kept their email
EmailExists_CountsDeleted(email) == \E addr \in DOMAIN heap : heap[addr].Email = email

EmailExists(email) == \E id \in DOMAIN users : UserAt(id).Email = email

\* NewUser as it would be if the id were the number of records plus one
NewUser_IDFromLen(id, r, t1, t2) ==
    [ID |-> Cardinality(DOMAIN users) + 1, Email |-> r.Email,
     FirstName |-> r.FirstName, LastName |-> r.LastName, Age |-> r.Age,
     Phone |-> r.Phone, Status |-> "active", CreatedAt |-> t1, UpdatedAt |-> t2]

\* NewUser as it would be if the literal left the phone out
NewUser_DropsPhone(id, r, t1, t2) ==
    [ID |-> id, Email |-> r.Email, FirstName |-> r.FirstName,
     LastName |-> r.LastName, Age |-> r.Age, Phone |-> "",
     Status |-> "active", CreatedAt |-> t1, UpdatedAt |-> t2]

\* the &model.User{...} literal of CreateUser
NewUser(id, r, t1, t2) ==
    [ID |-> id, Email |-> r.Email, FirstName |-> r.FirstName,
     LastName |-> r.LastName, Age |-> r.Age, Phone |-> r.Phone,
     Status |-> "active", CreatedAt |-> t1, UpdatedAt |-> t2]

\* s.users[id] = user
MapPut(m, id, addr) ==
    [i \in DOMAIN m \cup {id} |-> IF i = id THEN addr ELSE m[i]]

\* MapDelete as it would be if the key were never removed
MapDelete_Keeps(m, id) == m

\* delete(s.users, id)
MapDelete(m, id) == [i \in DOMAIN m \ {id} |-> m[i]]

\* IncrementID as it would be if the counter were left alone
IncrementID_Stuck(n) == n

\* s.nextID++
IncrementID(n) == n + 1

\* UpdateUser's scan: the new email differs from the record's and another record has it
\* the email scan of UpdateUser as it would be if it did not skip the record
\* that is updated
EmailTakenByOther_IncludesSelf(id, r) ==
    /\ r.Email # Nil
    /\ \E other \in DOMAIN users : UserAt(other).Email = Deref(r.Email)

EmailTakenByOther(id, r) ==
    /\ r.Email # Nil
    /\ Deref(r.Email) # UserAt(id).Email
    /\ \E other \in DOMAIN users :
          /\ UserAt(other).ID # id
          /\ UserAt(other).Email = Deref(r.Email)

\* ApplyUpdate as it would be if the payload's fields were plain values: a field
\* the payload lacks is overwritten with the zero value
ApplyUpdate_Overwrite(u, r, t) ==
    [ID |-> u.ID,
     Email |-> IF r.Email # Nil THEN Deref(r.Email) ELSE "",
     FirstName |-> IF r.FirstName # Nil THEN Deref(r.FirstName) ELSE "",
     LastName |-> IF r.LastName # Nil THEN Deref(r.LastName) ELSE "",
     Age |-> IF r.Age # Nil THEN Deref(r.Age) ELSE 0,
     Phone |-> IF r.Phone # Nil THEN Deref(r.Phone) ELSE "",
     Status |-> IF r.Status # Nil THEN Deref(r.Status) ELSE "",
     CreatedAt |-> u.CreatedAt,
     UpdatedAt |-> t]

\* ApplyUpdate as it would be if the time were assigned to the wrong stamp
ApplyUpdate_StampsCreatedAt(u, r, t) ==
    [ID |-> u.ID,
     Email |-> IF r.Email # Nil THEN Deref(r.Email) ELSE u.Email,
     FirstName |-> IF r.FirstName # Nil THEN Deref(r.FirstName) ELSE u.FirstName,
     LastName |-> IF r.LastName # Nil THEN Deref(r.LastName) ELSE u.LastName,
     Age |-> IF r.Age # Nil THEN Deref(r.Age) ELSE u.Age,
     Phone |-> IF r.Phone # Nil THEN Deref(r.Phone) ELSE u.Phone,
     Status |-> IF r.Status # Nil THEN Deref(r.Status) ELSE u.Status,
     CreatedAt |-> t,
     UpdatedAt |-> u.UpdatedAt]

\* UpdateUser's field assignments and the refreshed UpdatedAt
ApplyUpdate(u, r, t) ==
    [ID |-> u.ID,
     Email |-> IF r.Email # Nil THEN Deref(r.Email) ELSE u.Email,
     FirstName |-> IF r.FirstName # Nil THEN Deref(r.FirstName) ELSE u.FirstName,
     LastName |-> IF r.LastName # Nil THEN Deref(r.LastName) ELSE u.LastName,
     Age |-> IF r.Age # Nil THEN Deref(r.Age) ELSE u.Age,
     Phone |-> IF r.Phone # Nil THEN Deref(r.Phone) ELSE u.Phone,
     Status |-> IF r.Status # Nil THEN Deref(r.Status) ELSE u.Status,
     CreatedAt |-> u.CreatedAt,
     UpdatedAt |-> t]

ErrEmailExists(email) == "user with email " \o email \o " already exists"
ErrNotFound(id) == "user with ID " \o ToString(id) \o " not found"

\* the orders in which "for _, user := range s.users" may visit the map
RangeOrders(m) ==
    {o \in [1..Cardinality(DOMAIN m) -> DOMAIN m] :
        \A i, j \in DOMAIN o : i # j => o[i] # o[j]}

Meta(page, perPage, total, totalPages) ==
    [Page |-> page, PerPage |-> perPage, Total |-> total, TotalPages |-> totalPages]

\* (total + perPage - 1) / perPage
TotalPages(total, perPage) == GoDiv(Wrap(total + perPage - 1), perPage)

\* (page - 1) * perPage
StartOffset(page, perPage) == Wrap(Wrap(page - 1) * perPage)

\* ListUsers after allUsers (addresses, in range order) was collected. A division
\* by zero, a negative slice capacity or an index outside allUsers panics.
ListPage(allUsers, page, perPage) ==
    LET total == Len(allUsers)
        start == StartOffset(page, perPage)
        end0 == Wrap(start + perPage)
        end == IF end0 > total THEN total ELSE end0
        panicked == [NoList EXCEPT !.panic = TRUE]
    IN  IF perPage = 0 THEN panicked
        ELSE IF start >= total
        THEN [panic |-> FALSE, Users |-> <<>>,
              Meta |-> Meta(page, perPage, total, TotalPages(total, perPage))]
        ELSE IF end - start < 0 \/ start < 0 THEN panicked
        ELSE [panic |-> FALSE,
              Users |-> [i \in 1..(end - start) |-> heap[allUsers[start + i]]],
              Meta |-> Meta(page, perPage, total, TotalPages(total, perPage))]

----------------------------------------------------------------------------
(* UserService: the methods, from the acquired lock to the deferred unlock *)

\* CreateUserScan as it would be if the id were taken before the scan
CreateUserScan_CountsFailed(p) ==
    /\ pc[p] = "locked"
    /\ req[p].op = "create"
    /\ IF EmailExists(req[p].payload.Email)
       THEN /\ Return(p, RetErr(ErrEmailExists(req[p].payload.Email)), Unlock(p))
            /\ nextID' = nextID + 1
       ELSE /\ pc' = [pc EXCEPT ![p] = "checked"]
            /\ out' = NoOut
            /\ UNCHANGED <<mutex, req, ret, resp, nextID, session, config>>
    /\ UNCHANGED <<users, heap, clock, histVars, returned>>

\* CreateUser, up to the end of the email scan
CreateUserScan(p) ==
    /\ pc[p] = "locked"
    /\ req[p].op = "create"
    /\ IF EmailExists(req[p].payload.Email)
       THEN Return(p, RetErr(ErrEmailExists(req[p].payload.Email)), Unlock(p))
       ELSE /\ pc' = [pc EXCEPT ![p] = "checked"]
            /\ out' = NoOut
            /\ UNCHANGED <<mutex, req, ret, resp, session, config>>
    /\ UNCHANGED <<storeVars, histVars, returned>>

\* CreateUser, from the new record to the return
CreateUserInsert(p) ==
    /\ pc[p] = "checked"
    /\ req[p].op = "create"
    /\ \E t1 \in Now(clock) : \E t2 \in Now(t1) :
         LET user == NewUser(nextID, req[p].payload, t1, t2)
             addr == Len(heap) + 1
         IN  /\ heap' = Append(heap, user)
             /\ users' = MapPut(users, nextID, addr)
             /\ nextID' = IncrementID(nextID)
             /\ clock' = t2
             /\ returned' = [returned EXCEPT ![p] = user]
             /\ createdIDs' = Append(createdIDs, user.ID)
             /\ Return(p, RetUser(addr), Unlock(p))
    /\ UNCHANGED deletedIDs

GetUser(p) ==
    /\ pc[p] = "locked"
    /\ req[p].op = "get"
    /\ LET id == req[p].id IN
         IF id \notin DOMAIN users
         THEN /\ Return(p, RetErr(ErrNotFound(id)), RUnlock(p))
              /\ UNCHANGED returned
         ELSE /\ Return(p, RetUser(users[id]), RUnlock(p))
              /\ returned' = [returned EXCEPT ![p] = UserAt(id)]
    /\ UNCHANGED <<storeVars, histVars>>

\* UpdateUserScan as it would be if the other fields were assigned before the
\* email scan
UpdateUserScan_AssignsFirst(p) ==
    /\ pc[p] = "locked"
    /\ req[p].op = "update"
    /\ LET id == req[p].id
           r == req[p].payload
       IN  IF id \notin DOMAIN users
           THEN /\ Return(p, RetErr(ErrNotFound(id)), Unlock(p))
                /\ UNCHANGED heap
           ELSE IF EmailTakenByOther(id, r)
           THEN /\ Return(p, RetErr(ErrEmailExists(Deref(r.Email))), Unlock(p))
                /\ heap' = [heap EXCEPT ![users[id]] =
                               ApplyUpdate(@, [r EXCEPT !.Email = Nil], clock)]
           ELSE /\ pc' = [pc EXCEPT ![p] = "checked"]
                /\ ret' = [ret EXCEPT ![p] = RetUser(users[id])]
                /\ out' = NoOut
                /\ UNCHANGED <<mutex, req, resp, session, config, heap>>
    /\ UNCHANGED <<users, nextID, clock, histVars, returned>>

\* UpdateUser, up to the end of the email scan; user is the pointer it looked up
UpdateUserScan(p) ==
    /\ pc[p] = "locked"
    /\ req[p].op = "update"
    /\ LET id == req[p].id
           r == req[p].payload
       IN  IF id \notin DOMAIN users
           THEN Return(p, RetErr(ErrNotFound(id)), Unlock(p))
           ELSE IF EmailTakenByOther(id, r)
           THEN Return(p, RetErr(ErrEmailExists(Deref(r.Email))), Unlock(p))
           ELSE /\ pc' = [pc EXCEPT ![p] = "checked"]
                /\ ret' = [ret EXCEPT ![p] = RetUser(users[id])]
                /\ out' = NoOut
                /\ UNCHANGED <<mutex, req, resp, session, config>>
    /\ UNCHANGED <<storeVars, histVars, returned>>

\* UpdateUser, from the field assignments to the return
UpdateUserApply(p) ==
    /\ pc[p] = "checked"
    /\ req[p].op = "update"
    /\ \E t \in Now(clock) :
         LET user == ret[p].user IN
         /\ heap' = [heap EXCEPT ![user] = ApplyUpdate(@, req[p].payload, t)]
         /\ clock' = t
         /\ returned' = [returned EXCEPT ![p] = heap'[user]]
         /\ Return(p, RetUser(user), Unlock(p))
    /\ UNCHANGED <<users, nextID, histVars>>

DeleteUser(p) ==
    /\ pc[p] = "locked"
    /\ req[p].op = "delete"
    /\ LET id == req[p].id IN
         IF id \notin DOMAIN users
         THEN /\ Return(p, RetErr(ErrNotFound(id)), Unlock(p))
              /\ UNCHANGED <<users, deletedIDs>>
         ELSE /\ users' = MapDelete(users, id)
              /\ deletedIDs' = deletedIDs \cup {id}
              /\ Return(p, NoRet, Unlock(p))
    /\ UNCHANGED <<nextID, heap, clock, createdIDs, returned>>

ListUsers(p) ==
    /\ pc[p] = "locked"
    /\ req[p].op = "list"
    /\ \E order \in RangeOrders(users) :
         LET allUsers == [i \in DOMAIN order |-> users[order[i]]]
         IN  Return(p, RetList(ListPage(allUsers, req[p].page, req[p].perPage)),
                    RUnlock(p))
    /\ UNCHANGED <<storeVars, histVars, returned>>

----------------------------------------------------------------------------
(* Handler: from the request to the call into the store *)

\* a goroutine takes the next request once the last response has left the server
Ready(p) == pc[p] = "idle" /\ out = NoOut

\* the completed response leaves the server
Sent ==
    /\ out # NoOut
    /\ out' = NoOut
    /\ UNCHANGED <<storeVars, histVars, mutex, pc, req, ret, resp, returned, session, config>>

\* goroutine p answers the request without calling the store
Answer(p, handler, input, response) ==
    /\ out' = [proc |-> p, handler |-> handler,
               req |-> [op |-> "none", input |-> input], ret |-> NoRet,
               returned |-> NoUser, status |-> response.status,
               body |-> response.body]
    /\ Receive(response)
    /\ UNCHANGED config
    /\ UNCHANGED <<storeVars, histVars, mutex, pc, req, ret, resp, returned>>

\* goroutine p calls a store method and waits for its lock
Call(p, request) ==
    /\ pc' = [pc EXCEPT ![p] = "waiting"]
    /\ req' = [req EXCEPT ![p] = request]
    /\ out' = NoOut
    /\ UNCHANGED <<storeVars, histVars, mutex, ret, resp, returned, session, config>>

InvalidPayload == ErrorResponse(StatusBadRequest, "Invalid request payload")
InvalidUserID == ErrorResponse(StatusBadRequest, "Invalid user ID")
ValidationFailed(rules) ==
    [status |-> StatusBadRequest,
     body |-> [error |-> "Validation failed",
               details |-> [validation_errors |-> GetValidationErrors(rules)]]]

\* the health payload: status, service, version, timestamp and the checks
HealthResponse(service, version, t) ==
    [status |-> StatusOK,
     body |-> [Status |-> "ok", Service |-> service, Version |-> version,
               Timestamp |-> t, Checks |-> [database |-> "ok", memory |-> "ok"]]]

\* Health as it would be if service and version were taken from each other's field
HandlerHealth_SwapsFields(p) ==
    /\ Ready(p)
    /\ \E t \in Now(clock) :
         LET response == HealthResponse(config.App.Version, config.App.Name, t) IN
         /\ out' = [proc |-> p, handler |-> "Health",
                    req |-> [op |-> "none", input |-> "health"], ret |-> NoRet,
                    returned |-> NoUser, status |-> response.status,
                    body |-> response.body]
         /\ clock' = t
         /\ Receive(response)
    /\ UNCHANGED <<users, nextID, heap, histVars, mutex, pc, req, ret, resp, returned,
                   config>>

HandlerHealth(p) ==
    /\ Ready(p)
    /\ \E t \in Now(clock) :
         LET response == HealthResponse(config.App.Name, config.App.Version, t) IN
         /\ out' = [proc |-> p, handler |-> "Health",
                    req |-> [op |-> "none", input |-> "health"], ret |-> NoRet,
                    returned |-> NoUser, status |-> response.status,
                    body |-> response.body]
         /\ clock' = t
         /\ Receive(response)
    /\ UNCHANGED <<users, nextID, heap, histVars, mutex, pc, req, ret, resp, returned,
                   config>>

\* CreateUser calls that have not allocated yet
PendingCreates ==
    Cardinality({q \in Goroutines :
                    req[q].op = "create" /\ pc[q] \in {"waiting", "locked", "checked"}})

HandlerCreateUser(p, bodies) ==
    /\ Ready(p)
    /\ \E body \in bodies :
         LET input == [body |-> body] IN
         IF ~body.bind THEN Answer(p, "CreateUser", input, InvalidPayload)
         ELSE LET rules == CreateUserRequestRules(body.payload) IN
              IF Violations(rules) # {}
              THEN Answer(p, "CreateUser", input, ValidationFailed(rules))
              ELSE /\ Len(heap) + PendingCreates < MaxUsers
                   /\ Call(p, [op |-> "create", payload |-> body.payload,
                               input |-> input])

HandlerGetUser(p, idParams) ==
    /\ Ready(p)
    /\ \E idParam \in idParams :
         LET input == [idParam |-> idParam]
             id == Atoi(idParam)
         IN  IF ~id.ok THEN Answer(p, "GetUser", input, InvalidUserID)
             ELSE Call(p, [op |-> "get", id |-> id.val, input |-> input])

\* HandlerUpdateUser as it would be without the call of model.ValidateStruct
HandlerUpdateUser_NoValidation(p, idParams, bodies) ==
    /\ Ready(p)
    /\ \E idParam \in idParams, body \in bodies :
         LET input == [idParam |-> idParam, body |-> body]
             id == Atoi(idParam)
         IN  IF ~id.ok THEN Answer(p, "UpdateUser", input, InvalidUserID)
             ELSE IF ~body.bind THEN Answer(p, "UpdateUser", input, InvalidPayload)
             ELSE Call(p, [op |-> "update", id |-> id.val,
                           payload |-> body.payload, input |-> input])

HandlerUpdateUser(p, idParams, bodies) ==
    /\ Ready(p)
    /\ \E idParam \in idParams, body \in bodies :
         LET input == [idParam |-> idParam, body |-> body]
             id == Atoi(idParam)
         IN  IF ~id.ok THEN Answer(p, "UpdateUser", input, InvalidUserID)
             ELSE IF ~body.bind THEN Answer(p, "UpdateUser", input, InvalidPayload)
             ELSE LET rules == UpdateUserRequestRules(body.payload) IN
                  IF Violations(rules) # {}
                  THEN Answer(p, "UpdateUser", input, ValidationFailed(rules))
                  ELSE Call(p, [op |-> "update", id |-> id.val,
                                payload |-> body.payload, input |-> input])

HandlerDeleteUser(p, idParams) ==
    /\ Ready(p)
    /\ \E idParam \in idParams :
         LET input == [idParam |-> idParam]
             id == Atoi(idParam)
         IN  IF ~id.ok THEN Answer(p, "DeleteUser", input, InvalidUserID)
             ELSE Call(p, [op |-> "delete", id |-> id.val, input |-> input])

DefaultPage == 1
DefaultPerPage == 10
MaxPerPage == 100

\* page := 1, replaced by the parameter when Atoi accepts it and it is > 0
PageOf(pageParam) ==
    LET n == Atoi(pageParam) IN
    IF pageParam # <<>> /\ n.ok /\ n.val > 0 THEN n.val ELSE DefaultPage

\* PerPageOf as it would be without the upper limit
PerPageOf_NoUpperLimit(perPageParam) ==
    LET n == Atoi(perPageParam) IN
    IF perPageParam # <<>> /\ n.ok /\ n.val > 0 THEN n.val ELSE DefaultPerPage

\* perPage := 10, replaced by the parameter when Atoi accepts it and it is in 1..100
PerPageOf(perPageParam) ==
    LET n == Atoi(perPageParam) IN
    IF perPageParam # <<>> /\ n.ok /\ n.val > 0 /\ n.val <= MaxPerPage
    THEN n.val ELSE DefaultPerPage

HandlerListUsers(p, pageParams, perPageParams) ==
    /\ Ready(p)
    /\ \E pageParam \in pageParams, perPageParam \in perPageParams :
         Call(p, [op |-> "list", page |-> PageOf(pageParam),
                  perPage |-> PerPageOf(perPageParam),
                  input |-> [pageParam |-> pageParam, perPageParam |-> perPageParam]])

----------------------------------------------------------------------------
(* Handler: from the store's return to the response *)

\* goroutine p completes its response and is free for the next request
Respond(p, handler, response) ==
    /\ out' = Written(p, handler, response)
    /\ pc' = [pc EXCEPT ![p] = "idle"]
    /\ req' = [req EXCEPT ![p] = NoReq]
    /\ ret' = [ret EXCEPT ![p] = NoRet]
    /\ resp' = [resp EXCEPT ![p] = NoBody]
    /\ returned' = [returned EXCEPT ![p] = NoUser]
    /\ Receive(response)
    /\ UNCHANGED config
    /\ UNCHANGED <<storeVars, histVars, mutex>>

\* c.JSON(status, user) starts: the encoder reads the first fields through the pointer
BeginJSON(p) ==
    LET u == heap[ret[p].user] IN
    /\ resp' = [resp EXCEPT ![p] = [ID |-> u.ID, Email |-> u.Email,
                                    FirstName |-> u.FirstName,
                                    LastName |-> u.LastName]]
    /\ pc' = [pc EXCEPT ![p] = "encoding"]
    /\ out' = NoOut
    /\ UNCHANGED <<storeVars, histVars, mutex, req, ret, returned, session, config>>

HandlerNames ==
    [create |-> "CreateUser", get |-> "GetUser", update |-> "UpdateUser"]

\* ... then the remaining fields, and the response is complete
EncodeUser(p) ==
    /\ pc[p] = "encoding"
    /\ LET u == heap[ret[p].user]
           b == resp[p]
           status == IF req[p].op = "create" THEN StatusCreated ELSE StatusOK
       IN  Respond(p, HandlerNames[req[p].op],
                   [status |-> status,
                    body |-> [ID |-> b.ID, Email |-> b.Email,
                              FirstName |-> b.FirstName, LastName |-> b.LastName,
                              Age |-> u.Age, Phone |-> u.Phone, Status |-> u.Status,
                              CreatedAt |-> u.CreatedAt, UpdatedAt |-> u.UpdatedAt]])

\* HandlerCreateUserReturn as it would be if the store's error were answered 400
HandlerCreateUserReturn_BadRequest(p) ==
    /\ pc[p] = "returned"
    /\ req[p].op = "create"
    /\ IF ret[p].err # ""
       THEN Respond(p, "CreateUser", ErrorResponse(StatusBadRequest, ret[p].err))
       ELSE BeginJSON(p)

HandlerCreateUserReturn(p) ==
    /\ pc[p] = "returned"
    /\ req[p].op = "create"
    /\ IF ret[p].err # ""
       THEN Respond(p, "CreateUser", ErrorResponse(StatusConflict, ret[p].err))
       ELSE BeginJSON(p)

HandlerGetUserReturn(p) ==
    /\ pc[p] = "returned"
    /\ req[p].op = "get"
    /\ IF ret[p].err # ""
       THEN Respond(p, "GetUser", ErrorResponse(StatusNotFound, ret[p].err))
       ELSE BeginJSON(p)

\* status := 500; "user not found" -> 404; "email already exists" -> 409
UpdateErrorStatus(msg) ==
    IF msg = "user not found" THEN StatusNotFound
    ELSE IF msg = "email already exists" THEN StatusConflict
    ELSE StatusInternalServerError

HandlerUpdateUserReturn(p) ==
    /\ pc[p] = "returned"
    /\ req[p].op = "update"
    /\ IF ret[p].err # ""
       THEN Respond(p, "UpdateUser",
                    ErrorResponse(UpdateErrorStatus(ret[p].err), ret[p].err))
       ELSE BeginJSON(p)

\* HandlerDeleteUserReturn as it would be if the store's error were ignored
HandlerDeleteUserReturn_IgnoresError(p) ==
    /\ pc[p] = "returned"
    /\ req[p].op = "delete"
    /\ Respond(p, "DeleteUser", [status |-> StatusNoContent, body |-> NoBody])

HandlerDeleteUserReturn(p) ==
    /\ pc[p] = "returned"
    /\ req[p].op = "delete"
    /\ IF ret[p].err # ""
       THEN Respond(p, "DeleteUser", ErrorResponse(StatusNotFound, ret[p].err))
       ELSE Respond(p, "DeleteUser", [status |-> StatusNoContent, body |-> NoBody])

\* a panic of ListUsers leaves the handler; the server answers 500
HandlerListUsersReturn(p) ==
    /\ pc[p] = "returned"
    /\ req[p].op = "list"
    /\ Respond(p, "ListUsers",
               IF ret[p].list.panic
               THEN ErrorResponse(StatusInternalServerError, "Internal Server Error")
               ELSE [status |-> StatusOK,
                     body |-> [users |-> ret[p].list.Users,
                               meta |-> ret[p].list.Meta]])

----------------------------------------------------------------------------
(* Concurrent requests on one store *)

Store(p) ==
    \/ Lock(p)
    \/ RLock(p)
    \/ CreateUserScan(p)
    \/ CreateUserInsert(p)
    \/ GetUser(p)
    \/ UpdateUserScan(p)
    \/ UpdateUserApply(p)
    \/ DeleteUser(p)
    \/ ListUsers(p)

Returns(p) ==
    \/ HandlerCreateUserReturn(p)
    \/ HandlerGetUserReturn(p)
    \/ HandlerUpdateUserReturn(p)
    \/ HandlerDeleteUserReturn(p)
    \/ HandlerListUsersReturn(p)
    \/ EncodeUser(p)

Next ==
    \/ Sent
    \/ \E p \in Procs :
        \/ HandlerCreateUser(p, PostBodies)
        \/ HandlerGetUser(p, IdParams)
        \/ HandlerUpdateUser(p, IdParams, PutBodies)
        \/ HandlerDeleteUser(p, IdParams)
        \/ HandlerListUsers(p, PageParams, PerPageParams)
        \/ Store(p)
        \/ Returns(p)

Spec == Init /\ [][Next]_vars

----------------------------------------------------------------------------
(* One goroutine serving one request after the other, on every kind of input *)

NextSeq ==
    LET p == "g1" IN
        \/ Sent
        \/ HandlerCreateUser(p, AllPostBodies)
        \/ HandlerGetUser(p, AllIdParams)
        \/ HandlerUpdateUser(p, AllIdParams, AllPutBodies)
        \/ HandlerDeleteUser(p, AllIdParams)
        \/ HandlerListUsers(p, AllPageParams, AllPerPageParams)
        \/ Store(p)
        \/ Returns(p)

SpecSeq == Init /\ [][NextSeq]_vars

----------------------------------------------------------------------------
(* One goroutine creating, reading, updating and deleting while the clock runs *)

InitClock ==
    /\ NewUserService
    /\ clock = 0
    /\ Idle
    /\ session = NoSession
    /\ config = DefaultConfig

NextClock ==
    LET p == "g1" IN
        \/ Sent
        \/ HandlerCreateUser(p, PostBodies)
        \/ HandlerGetUser(p, IdParams)
        \/ HandlerUpdateUser(p, IdParams, ClockPutBodies)
        \/ HandlerDeleteUser(p, IdParams)
        \/ Lock(p)
        \/ RLock(p)
        \/ CreateUserScan(p)
        \/ CreateUserInsert(p)
        \/ GetUser(p)
        \/ UpdateUserScan(p)
        \/ UpdateUserApply(p)
        \/ DeleteUser(p)
        \/ HandlerCreateUserReturn(p)
        \/ HandlerGetUserReturn(p)
        \/ HandlerUpdateUserReturn(p)
        \/ HandlerDeleteUserReturn(p)
        \/ EncodeUser(p)

SpecClock == InitClock /\ [][NextClock]_vars

----------------------------------------------------------------------------
(* Direct calls of the store methods, on a store that already served Creates *)

\* the store after n CreateUser calls with different emails
Preloaded(n) ==
    /\ heap = [i \in 1..n |->
                 NewUser(i, CreatePayload("u" \o ToString(i) \o "@x.com", "Ann", "Lee",
                                          30, ""), 0, 0)]
    /\ users = [i \in 1..n |-> i]
    /\ nextID = n + 1
    /\ createdIDs = [i \in 1..n |-> i]
    /\ deletedIDs = {}

InitDirect ==
    /\ \E n \in 0..MaxPreload : Preloaded(n)
    /\ clock = 0
    /\ Idle
    /\ session = NoSession
    /\ config = DefaultConfig

\* a caller that has not called yet creates a user with an email that no record
\* and no other caller has
CallCreateUser(p) ==
    /\ pc[p] = "idle"
    /\ \E email \in WellFormedEmails :
         /\ ~EmailExists(email)
         /\ \A q \in Goroutines : req[q].op = "create" => req[q].payload.Email # email
         /\ Call(p, [op |-> "create",
                     payload |-> CreatePayload(email, "Ann", "Lee", 30, ""),
                     input |-> "direct"])

NextCreates ==
    \E p \in Goroutines :
        \/ CallCreateUser(p)
        \/ Lock(p)
        \/ CreateUserScan(p)
        \/ CreateUserInsert(p)

SpecCreates == InitDirect /\ [][NextCreates]_vars

\* ListUsers(page, perPage) with any positive ints
CallListUsers(p) ==
    /\ Ready(p)
    /\ \E page \in 1..MaxInt, perPage \in 1..MaxInt :
         Call(p, [op |-> "list", page |-> page, perPage |-> perPage,
                  input |-> "direct"])

NextList ==
    LET p == "g1" IN
        \/ Sent
        \/ CallListUsers(p)
        \/ RLock(p)
        \/ ListUsers(p)
        \/ HandlerListUsersReturn(p)

SpecList == InitDirect /\ [][NextList]_vars

----------------------------------------------------------------------------
(* GET /api/v1/users with page numbers up to the largest int, on a store that
   already served Creates *)

PagesPageParams == {<<"1">>, <<"2">>, <<"6", "5">>, <<"1", "2", "7">>, <<"2", "5", "5">>}
PagesPerPageParams == {<<"1">>, <<"2">>, <<"4">>, <<"1", "0", "0">>}

NextPages ==
    LET p == "g1" IN
        \/ Sent
        \/ HandlerListUsers(p, PagesPageParams, PagesPerPageParams)
        \/ RLock(p)
        \/ ListUsers(p)
        \/ HandlerListUsersReturn(p)

SpecPages == InitDirect /\ [][NextPages]_vars

----------------------------------------------------------------------------
(* Goroutines that each call one store method, under fair scheduling *)

InitCalls ==
    /\ \E n \in 0..MaxPreload : Preloaded(n)
    /\ clock = MaxClock
    /\ Idle
    /\ session = NoSession
    /\ config = DefaultConfig

CallsIds == {1, 3}
CallsPayloads == {UpdatePayload(Ptr("u1@x.com"), Nil, Nil, Ptr(31), Nil, Nil)}

\* every caller that creates a user sends the same email
CallCreateSame(p) ==
    /\ pc[p] = "idle"
    /\ Call(p, [op |-> "create",
                payload |-> CreatePayload("a@x.com", "Ann", "Lee", 30, ""),
                input |-> "direct"])

CallGetUser(p) ==
    /\ pc[p] = "idle"
    /\ \E id \in CallsIds : Call(p, [op |-> "get", id |-> id, input |-> "direct"])

CallUpdateUser(p) ==
    /\ pc[p] = "idle"
    /\ \E id \in CallsIds, payload \in CallsPayloads :
         Call(p, [op |-> "update", id |-> id, payload |-> payload,
                  input |-> "direct"])

CallDeleteUser(p) ==
    /\ pc[p] = "idle"
    /\ \E id \in CallsIds : Call(p, [op |-> "delete", id |-> id, input |-> "direct"])

CallListFirstPage(p) ==
    /\ pc[p] = "idle"
    /\ Call(p, [op |-> "list", page |-> 1, perPage |-> 1, input |-> "direct"])

NextCalls ==
    \E p \in Goroutines :
        \/ CallCreateSame(p)
        \/ CallGetUser(p)
        \/ CallUpdateUser(p)
        \/ CallDeleteUser(p)
        \/ CallListFirstPage(p)
        \/ Store(p)

\* the scheduler runs every goroutine that can take a step, and the mutex is
\* granted to a goroutine that waits for it once it stays free
SpecCalls ==
    /\ InitCalls
    /\ [][NextCalls]_vars
    /\ \A p \in Goroutines : WF_vars(Store(p))

----------------------------------------------------------------------------
(* One client that sends a fixed sequence of requests to a new server, each
   after it received the response to the one before *)

SessionUser == Body(CreatePayload("a@x.com", "Ann", "Lee", 30, "+1234567890"))
SessionUpdate == Body(UpdatePayload(Nil, Nil, Nil, Ptr(31), Nil, Nil))

InitSession ==
    /\ NewUserService
    /\ clock \in 0..MaxClock
    /\ Idle
    /\ session = [scripted |-> TRUE, received |-> <<>>]
    /\ config = DefaultConfig

\* the client's next request
SessionRequest(p) ==
    LET k == Len(session.received) + 1 IN
        \/ k \in {1, 2} /\ HandlerCreateUser(p, {SessionUser})
        \/ k \in {3, 6} /\ HandlerGetUser(p, {<<"1">>})
        \/ k = 4 /\ HandlerUpdateUser(p, {<<"1">>}, {SessionUpdate})
        \/ k = 5 /\ HandlerDeleteUser(p, {<<"1">>})
        \/ k = 7 /\ HandlerListUsers(p, {<<"2">>}, {<<"1", "0">>})

NextSession ==
    LET p == "g1" IN
        \/ Sent
        \/ SessionRequest(p)
        \/ Store(p)
        \/ Returns(p)

SpecSession == InitSession /\ [][NextSession]_vars

----------------------------------------------------------------------------
(* GET /health between the user requests, on a handler built with any
   configuration *)

InitHealth ==
    /\ NewUserService
    /\ clock = 0
    /\ Idle
    /\ session = NoSession
    /\ config \in Configs

NextHealth ==
    LET p == "g1" IN
        \/ Sent
        \/ HandlerHealth(p)
        \/ HandlerCreateUser(p, PostBodies)
        \/ HandlerGetUser(p, IdParams)
        \/ HandlerUpdateUser(p, IdParams, PutBodies)
        \/ HandlerDeleteUser(p, IdParams)
        \/ HandlerListUsers(p, PageParams, PerPageParams)
        \/ Store(p)
        \/ Returns(p)

SpecHealth == InitHealth /\ [][NextHealth]_vars

----------------------------------------------------------------------------
(* Requests that reuse an email: every record is created with the same email,
   and the updates move the records between the well-formed emails *)

ReleasePost == Body(CreatePayload("a@x.com", "Ann", "Lee", 30, ""))
ReleasePuts ==
    {Body(UpdatePayload(Ptr(email), Nil, Nil, Nil, Nil, Nil)) : email \in WellFormedEmails}
ReleaseIdParams == {<<"1">>, <<"2">>, <<"3">>}

\* POST /api/v1/users with the one email, accepted while fewer than MaxUsers
\* records are live and no more than MaxUsers were allocated
HandlerCreateAgain(p) ==
    /\ Ready(p)
    /\ Violations(CreateUserRequestRules(ReleasePost.payload)) = {}
    /\ Cardinality(DOMAIN users) + PendingCreates < MaxUsers
    /\ Len(heap) + PendingCreates <= MaxUsers
    /\ Call(p, [op |-> "create", payload |-> ReleasePost.payload,
                input |-> [body |-> ReleasePost]])

NextRelease ==
    LET p == "g1" IN
        \/ Sent
        \/ HandlerCreateAgain(p)
        \/ HandlerGetUser(p, ReleaseIdParams)
        \/ HandlerUpdateUser(p, ReleaseIdParams, ReleasePuts)
        \/ HandlerDeleteUser(p, ReleaseIdParams)
        \/ HandlerListUsers(p, PageParams, PerPageParams)
        \/ Store(p)
        \/ Returns(p)

SpecRelease == Init /\ [][NextRelease]_vars

----------------------------------------------------------------------------
(* One client that lists the same store page by page: two users are created,
   the first is read and updated, then page 1 is fetched twice and page 2
   once with one record per page, and the second user is deleted *)

ListingUsers ==
    <<Body(CreatePayload("a@x.com", "Ann", "Lee", 30, "+1234567890")),
      Body(CreatePayload("b@x.com", "Bob", "Ray", 25, ""))>>

\* the client's next request
ListingRequest(p) ==
    LET k == Len(session.received) + 1 IN
        \/ k \in {1, 2} /\ HandlerCreateUser(p, {ListingUsers[k]})
        \/ k = 3 /\ HandlerGetUser(p, {<<"1">>})
        \/ k = 4 /\ HandlerUpdateUser(p, {<<"1">>}, {SessionUpdate})
        \/ k \in {5, 6} /\ HandlerListUsers(p, {<<"1">>}, {<<"1">>})
        \/ k = 7 /\ HandlerListUsers(p, {<<"2">>}, {<<"1">>})
        \/ k = 8 /\ HandlerDeleteUser(p, {<<"2">>})

NextListing ==
    LET p == "g1" IN
        \/ Sent
        \/ ListingRequest(p)
        \/ Store(p)
        \/ Returns(p)

SpecListing == InitSession /\ [][NextListing]_vars

----------------------------------------------------------------------------
(* Properties *)

LiveIDs == DOMAIN users

\* goroutine p's store method returns in this step
Returning(p) == pc[p] \in {"locked", "checked"} /\ pc'[p] = "returned"

\* goroutine p holds a record its CreateUser call returned
Created(p) ==
    /\ req[p].op = "create"
    /\ pc[p] \in {"returned", "encoding"}
    /\ ret[p].err = ""

\* C1: at every instant no two live records have the same email, and of two
\* CreateUser calls in flight with the same email that both succeeded, the record
\* of one has meanwhile been deleted or has given the email up.
C1_EmailUnique ==
    /\ \A i, j \in LiveIDs : i # j => UserAt(i).Email # UserAt(j).Email
    /\ \A p, q \in Goroutines :
         (p # q /\ Created(p) /\ Created(q)
              /\ req[p].payload.Email = req[q].payload.Email)
         => \E g \in {p, q} :
               \/ returned[g].ID \notin LiveIDs
               \/ heap[ret[g].user].Email # req[g].payload.Email

\* two live records, and a CreateUser that failed on a taken email while another
\* goroutine was inside the store
C1_Witness ==
    /\ Cardinality(LiveIDs) = 2
    /\ \E p, q \in Procs :
         /\ p # q
         /\ req[p].op = "create" /\ pc[p] = "returned" /\ ret[p].err # ""
         /\ pc[q] \in {"waiting", "returned", "encoding"}

\* C2: every successful CreateUser returns an id greater than the ids all earlier
\* successful CreateUser calls returned, whatever happened in between.
C2_IDsIncrease ==
    \A i, j \in DOMAIN createdIDs : i < j => createdIDs[i] < createdIDs[j]

\* two successful creates with a delete before the second
C2_Witness ==
    /\ Len(createdIDs) >= 2
    /\ createdIDs[1] \in deletedIDs
    /\ createdIDs[2] \in LiveIDs

AllReturned == \A p \in Goroutines : pc[p] = "returned"

\* the ids of the records that hold an email of the concurrent callers
CallerRecords == {id \in LiveIDs : UserAt(id).Email \in WellFormedEmails}

\* C3: when all the concurrent CreateUser calls with pairwise different, unused
\* emails have returned, each succeeded, the ids they got are pairwise different,
\* and the store holds one more record per caller and the records it had.
C3_ConcurrentCreates ==
    AllReturned =>
        /\ \A p \in Goroutines : ret[p].err = "" /\ ret[p].user # 0
        /\ \A p, q \in Goroutines : p # q => returned[p].ID # returned[q].ID
        /\ CallerRecords = {returned[p].ID : p \in Goroutines}
        /\ Cardinality(CallerRecords) = Cardinality(Goroutines)
        /\ Cardinality(LiveIDs) = Len(heap)
        /\ \A p \in Goroutines :
             UserAt(returned[p].ID).Email = req[p].payload.Email

\* all callers returned, on a store that held records before
C3_Witness ==
    /\ AllReturned
    /\ Len(heap) > Cardinality(Goroutines)

Responded(handler) == out.proc # NoProc /\ out.handler = handler

\* C4: a PUT with an integer id and a valid payload, for an id no live record
\* has, is answered 404.
C4_UpdateNotFoundIs404 ==
    (/\ Responded("UpdateUser")
     /\ out.req.op = "update"
     /\ out.ret.err = ErrNotFound(out.req.id))
    => out.status = StatusNotFound

\* C5: a PUT that changes the email to that of another live record is answered
\* 409, and so is a POST with the email of a live record.
C5_DuplicateIs409 ==
    /\ (/\ Responded("UpdateUser")
        /\ out.req.op = "update"
        /\ out.req.payload.Email # Nil
        /\ out.ret.err = ErrEmailExists(Deref(out.req.payload.Email)))
       => out.status = StatusConflict
    /\ (/\ Responded("CreateUser")
        /\ out.req.op = "create"
        /\ out.ret.err = ErrEmailExists(out.req.payload.Email))
       => out.status = StatusConflict

\* C6: a CreateUser with the email of a live record returns the duplicate error
\* and no record, and leaves the map, every record and the counter as they were.
C6_DuplicateCreateChangesNothing ==
    [][\A p \in Goroutines :
         (/\ req[p].op = "create"
          /\ Returning(p)
          /\ \E id \in LiveIDs : UserAt(id).Email = req[p].payload.Email)
         => /\ ret'[p] = RetErr(ErrEmailExists(req[p].payload.Email))
            /\ users' = users
            /\ heap' = heap
            /\ nextID' = nextID]_vars

\* a CreateUser returned the duplicate error on a store with a record
C6_Witness ==
    \E p \in Goroutines :
        /\ req[p].op = "create"
        /\ pc[p] = "returned"
        /\ ret[p].err = ErrEmailExists(req[p].payload.Email)
        /\ LiveIDs # {}

\* C7: once DeleteUser(id) succeeded, no record has that id again, and every
\* GetUser, UpdateUser and DeleteUser that runs on the id afterwards returns the
\* not-found error, also after later CreateUser calls.
C7_DeletedStaysDeleted ==
    [][/\ deletedIDs \cap LiveIDs = {}
       /\ deletedIDs' \cap DOMAIN users' = {}
       /\ \A p \in Goroutines :
            (/\ req[p].op \in {"get", "update", "delete"}
             /\ pc[p] = "locked"
             /\ pc'[p] # "locked"
             /\ req[p].id \in deletedIDs)
            => /\ pc'[p] = "returned"
               /\ ret'[p] = RetErr(ErrNotFound(req[p].id))]_vars

\* a call on a deleted id returned not-found after a later CreateUser succeeded
C7_Witness ==
    \E p \in Goroutines :
        /\ req[p].op \in {"get", "update", "delete"}
        /\ pc[p] = "returned"
        /\ req[p].id \in deletedIDs
        /\ ret[p].err = ErrNotFound(req[p].id)
        /\ \E i \in DOMAIN createdIDs : createdIDs[i] > req[p].id

\* C8: a successful UpdateUser sets the fields the payload holds to the payload's
\* values, keeps the other updatable fields, the id and CreatedAt, returns that
\* record, and leaves every other record, the map and the counter unchanged.
C8_UpdateFrame ==
    [][\A p \in Goroutines :
         (req[p].op = "update" /\ pc[p] = "checked" /\ Returning(p))
         => LET r == req[p].payload
                a == users[req[p].id]
            IN  /\ ret'[p] = RetUser(a)
                /\ \A f \in UpdateFields :
                     heap'[a][f] = IF r[f] # Nil THEN Deref(r[f]) ELSE heap[a][f]
                /\ heap'[a].ID = heap[a].ID
                /\ heap'[a].CreatedAt = heap[a].CreatedAt
                /\ \A b \in DOMAIN heap : b # a => heap'[b] = heap[b]
                /\ DOMAIN heap' = DOMAIN heap
                /\ users' = users
                /\ nextID' = nextID]_vars

\* an update with present and absent fields succeeded on one of two records,
\* after the clock moved on from the record's creation
C8_Witness ==
    \E p \in Goroutines :
        /\ req[p].op = "update"
        /\ pc[p] = "returned"
        /\ ret[p].err = ""
        /\ \E f, g \in UpdateFields : req[p].payload[f] # Nil /\ req[p].payload[g] = Nil
        /\ returned[p].UpdatedAt > returned[p].CreatedAt
        /\ Cardinality(LiveIDs) = 2

\* C9: the record a store method returned keeps the value it had when it was
\* returned, and the response carries that value.
C9_ReturnedRecordIsACopy ==
    /\ \A p \in Goroutines :
         (pc[p] \in {"returned", "encoding"} /\ ret[p].user # 0)
         => heap[ret[p].user] = returned[p]
    /\ (out.proc # NoProc /\ out.ret.user # 0) => out.body = out.returned

\* ceil(n / d) in unbounded arithmetic
Ceil(n, d) == (n + d - 1) \div d

\* C10: ListUsers reports total = N and total_pages = ceil(N / perPage), echoes
\* page and perPage, and returns no users for a page beyond the last one.
C10_ListMeta ==
    (Responded("ListUsers") /\ out.req.page >= 1 /\ out.req.perPage >= 1)
    => LET n == Cardinality(LiveIDs)
           l == out.ret.list
       IN  /\ ~l.panic
           /\ out.status = StatusOK
           /\ l.Meta = Meta(out.req.page, out.req.perPage, n, Ceil(n, out.req.perPage))
           /\ out.req.page > Ceil(n, out.req.perPage) => l.Users = <<>>

Max(a, b) == IF a >= b THEN a ELSE b

\* C11: for a store of N records, List(page, perPage) returns exactly
\* min(perPage, max(0, N - (page-1)*perPage)) records, those at the positions from
\* (page-1)*perPage of one enumeration of the live records.
C11_ListSlice ==
    (Responded("ListUsers") /\ out.req.page >= 1 /\ out.req.perPage >= 1)
    => LET n == Cardinality(LiveIDs)
           l == out.ret.list
           start == (out.req.page - 1) * out.req.perPage
           count == Min(out.req.perPage, Max(0, n - start))
       IN  /\ ~l.panic
           /\ Len(l.Users) = count
           /\ l.Meta.Total = n
           /\ \E order \in RangeOrders(users) :
                \A i \in 1..count : l.Users[i] = UserAt(order[start + i])

\* C12: for every page >= 1 the handler accepts and every perPage in 1..100, a
\* List call never indexes the collected records outside [0, total) (it does not
\* panic), and when its starting offset (page-1)*perPage is >= total it is
\* answered 200 with an empty list and the accurate metadata.
C12_PageBeyondTotal ==
    (/\ Responded("ListUsers")
     /\ out.req.page >= 1
     /\ out.req.perPage \in 1..MaxPerPage)
    => LET n == Cardinality(LiveIDs)
           l == out.ret.list
       IN  /\ ~l.panic
           /\ (out.req.page - 1) * out.req.perPage >= n
              => /\ out.status = StatusOK
                 /\ out.body.users = <<>>
                 /\ out.body.meta = Meta(out.req.page, out.req.perPage, n,
                                         Ceil(n, out.req.perPage))

\* the query value is a decimal integer: an optional sign and one or more digits
IsInteger(s) ==
    LET ds == IF s # <<>> /\ s[1] \in {"+", "-"} THEN Tail(s) ELSE s
    IN  ds # <<>> /\ \A i \in 1..Len(ds) : IsDigit(ds[i])

RECURSIVE Decimal(_)
\* the natural number the digits ds denote
Decimal(ds) ==
    IF ds = <<>> THEN 0
    ELSE 10 * Decimal(SubSeq(ds, 1, Len(ds) - 1)) + DigitVal(ds[Len(ds)])

\* the integer the query value denotes
IntegerValue(s) ==
    IF s[1] = "-" THEN -Decimal(Tail(s))
    ELSE IF s[1] = "+" THEN Decimal(Tail(s))
    ELSE Decimal(s)

\* the query value is an integer of the machine's range that lies in lo..hi
IntegerIn(s, lo, hi) ==
    IsInteger(s) /\ IntegerValue(s) \in MinInt..MaxInt /\ IntegerValue(s) \in lo..hi

\* C13: the list handler calls the store with page = the query value when that is
\* an integer > 0 and 1 otherwise, and perPage = the query value when that is an
\* integer in 1..100 and 10 otherwise; so page >= 1 and perPage is in 1..100.
C13_ListDefaults ==
    \A p \in Goroutines :
        req[p].op = "list"
        => LET in == req[p].input IN
           /\ req[p].page =
                 IF IntegerIn(in.pageParam, 1, MaxInt)
                 THEN IntegerValue(in.pageParam) ELSE 1
           /\ req[p].perPage =
                 IF IntegerIn(in.perPageParam, 1, 100)
                 THEN IntegerValue(in.perPageParam) ELSE 10
           /\ req[p].page >= 1
           /\ req[p].perPage \in 1..100
           /\ pc[p] = "returned" => ~ret[p].list.panic

\* the store answered a list call for page=0 and per_page=101 with the defaults
C13_Witness ==
    \E p \in Goroutines :
        /\ req[p].op = "list"
        /\ pc[p] = "returned"
        /\ req[p].input.pageParam = <<"0">>
        /\ req[p].input.perPageParam = <<"1", "0", "1">>
        /\ req[p].page = 1
        /\ req[p].perPage = 10

\* response o answers a POST or a PUT whose body decodes to a payload that
\* violates a field rule
AnswersInvalidPayload(o) ==
    /\ o.proc # NoProc
    /\ o.handler \in {"CreateUser", "UpdateUser"}
    /\ o.req.input.body.bind
    /\ LET r == o.req.input.body.payload IN
       IF o.handler = "CreateUser"
       THEN \/ r.Email = "" \/ r.Email \notin WellFormedEmails
            \/ Len(r.FirstName) \notin 2..50 \/ Len(r.LastName) \notin 2..50
            \/ r.Age \notin 1..150
            \/ (r.Phone # "" /\ r.Phone \notin WellFormedPhones)
       ELSE \/ (r.Email # Nil /\ Deref(r.Email) \notin WellFormedEmails)
            \/ (r.FirstName # Nil /\ Len(Deref(r.FirstName)) \notin 2..50)
            \/ (r.LastName # Nil /\ Len(Deref(r.LastName)) \notin 2..50)
            \/ (r.Age # Nil /\ Deref(r.Age) \notin 1..150)
            \/ (r.Phone # Nil /\ Deref(r.Phone) \notin WellFormedPhones)
            \/ (r.Status # Nil /\ Deref(r.Status) \notin StatusValues)

\* response o is the validation failure, given without a call of the store
IsValidationFailure(o) ==
    /\ o.status = StatusBadRequest
    /\ o.body.error = "Validation failed"
    /\ DOMAIN o.body.details.validation_errors # {}
    /\ o.req.op = "none"

\* C14 as stated: a POST or PUT whose payload violates a field rule is answered
\* 400 "Validation failed" with non-empty validation_errors, and the step that
\* answers it leaves the records, the map and the counter unchanged.
C14_InvalidPayloadRejected ==
    [][AnswersInvalidPayload(out')
       => /\ IsValidationFailure(out')
          /\ UNCHANGED <<users, heap, nextID, pc>>]_vars

\* C14, amended: the same for a POST, and for a PUT whose id is an integer (the id
\* is parsed before the body is read: a PUT with another id is answered 400
\* "Invalid user ID", whatever its payload).
C14_InvalidPayloadRejectedWithID ==
    [][(/\ AnswersInvalidPayload(out')
        /\ out'.handler = "UpdateUser"
           => IntegerIn(out'.req.input.idParam, MinInt, MaxInt))
       => /\ IsValidationFailure(out')
          /\ UNCHANGED <<users, heap, nextID, pc>>]_vars

\* a PUT with an integer id and a payload that violates two rules was answered
\* with the validation failure, on a store that holds a record
C14_Witness ==
    /\ Responded("UpdateUser")
    /\ AnswersInvalidPayload(out)
    /\ IsValidationFailure(out)
    /\ IntegerIn(out.req.input.idParam, MinInt, MaxInt)
    /\ Cardinality(DOMAIN out.body.details.validation_errors) = 2
    /\ LiveIDs # {}

\* record u has the fields of creation payload r, and the status "active"
HasPayload(u, r) ==
    /\ \A f \in CreateFields : u[f] = r[f]
    /\ u.Status = "active"

\* C15: with one request served after the other, a POST with a payload that passes
\* validation and an email no live record has makes CreateUser succeed, and is answered 201 with a record that has the
\* payload's email, names, age and phone and the status "active"; the record is
\* live under the returned id, and a GetUser of a live id returns its record.
C15_CreateIs201 ==
    [][\A p \in Goroutines :
         /\ (/\ req[p].op = "create"
             /\ pc[p] = "locked" /\ pc'[p] # "locked"
             /\ \A id \in LiveIDs : UserAt(id).Email # req[p].payload.Email)
            => pc'[p] = "checked"
         /\ (req[p].op = "create" /\ pc[p] = "checked" /\ pc'[p] # "checked")
            => /\ pc'[p] = "returned"
               /\ ret'[p].err = ""
               /\ HasPayload(heap'[ret'[p].user], req[p].payload)
         /\ (/\ out'.proc = p
             /\ out'.handler = "CreateUser"
             /\ out'.req.op = "create"
             /\ out'.ret.err = "")
            => /\ out'.status = StatusCreated
               /\ HasPayload(out'.body, out'.req.payload)
               /\ out'.body.ID \in DOMAIN users'
               /\ heap'[users'[out'.body.ID]] = out'.body
         /\ (/\ req[p].op = "get"
             /\ pc[p] = "locked" /\ pc'[p] # "locked"
             /\ req[p].id \in LiveIDs)
            => /\ ret'[p] = RetUser(users[req[p].id])
               /\ heap'[ret'[p].user].ID = req[p].id]_vars

\* a POST with a phone number was answered 201 while another record was live
C15_Witness ==
    /\ Responded("CreateUser")
    /\ out.status = StatusCreated
    /\ out.body.Phone = "+1234567890"
    /\ out.body.Email = "c@x.com"
    /\ Cardinality(LiveIDs) = 2

\* C16: after every successful UpdateUser the record's UpdatedAt is strictly
\* greater than it was before the call.
C16_UpdatedAtIncreases ==
    [][\A p \in Goroutines :
         (req[p].op = "update" /\ pc[p] = "checked" /\ Returning(p))
         => heap'[ret'[p].user].UpdatedAt > heap[ret'[p].user].UpdatedAt]_vars

\* C17: the record a successful CreateUser returns has CreatedAt = UpdatedAt.
C17_CreateStampsEqual ==
    \A p \in Goroutines :
        Created(p) => returned[p].CreatedAt = returned[p].UpdatedAt

\* C18: every live record has UpdatedAt >= CreatedAt, the clock being one that
\* never goes back.
C18_UpdatedNotBeforeCreated ==
    \A id \in LiveIDs : UserAt(id).UpdatedAt >= UserAt(id).CreatedAt

\* a record created while the clock moved, and one updated after it moved again
C18_Witness ==
    \E i, j \in LiveIDs :
        /\ i # j
        /\ UserAt(i).CreatedAt > 0
        /\ UserAt(i).UpdatedAt > UserAt(i).CreatedAt
        /\ UserAt(j).UpdatedAt > UserAt(j).CreatedAt
        /\ \E p \in Goroutines :
             req[p].op = "update" /\ pc[p] = "returned" /\ ret[p].err = ""

\* C19: in every state reached through the handlers, the status of every live
\* record is one of active, inactive, suspended.
C19_StatusEnum ==
    \A id \in LiveIDs : UserAt(id).Status \in {"active", "inactive", "suspended"}

\* a PUT with an empty status was rejected; records with the status CreateUser
\* set and with a status an earlier PUT set are live
C19_Witness ==
    /\ Responded("UpdateUser")
    /\ out.req.input.body.bind
    /\ out.req.input.body.payload.Status = Ptr("")
    /\ out.status = StatusBadRequest
    /\ \E i, j \in LiveIDs :
         UserAt(i).Status = "active" /\ UserAt(j).Status \in {"inactive", "suspended"}

\* goroutine p is between the lock and the deferred unlock of a store method
InCriticalSection(p) == pc[p] \in {"locked", "checked"}
Mutating(p) == req[p].op \in {"create", "update", "delete"}
Reading(p) == req[p].op \in {"get", "list"}

\* a mutating method is in its critical section with no other method
WritersAlone ==
    \A p, q \in Goroutines :
        (p # q /\ InCriticalSection(p) /\ Mutating(p)) => ~InCriticalSection(q)

\* C20: a CreateUser, UpdateUser or DeleteUser is never inside its critical
\* section together with another store method (GetUser and ListUsers may be
\* inside together), and the map and the counter change only in a step of a
\* mutating method that is inside its critical section.
C20_MutualExclusion ==
    [][/\ WritersAlone
       /\ WritersAlone'
       /\ (users' # users \/ nextID' # nextID)
          => \E p \in Goroutines :
                InCriticalSection(p) /\ Mutating(p) /\ pc'[p] = "returned"]_vars

\* GetUser and ListUsers are inside their critical sections together, on a store
\* with a record
C20_Witness ==
    /\ \E p, q \in Goroutines :
         /\ InCriticalSection(p) /\ req[p].op = "get"
         /\ InCriticalSection(q) /\ req[q].op = "list"
    /\ LiveIDs # {}

\* goroutine p holds the mutex in the way its method locked it
HoldsLock(p) == mutex.writer = p \/ p \in mutex.readers

\* C21: under fair scheduling every store call that was made acquires the lock,
\* and every call that acquired it returns, on its success and error paths alike,
\* having released it; so with everyone returned the mutex is free, and a waiting
\* caller never waits on a mutex nobody will release.
C21_CallsReturn ==
    /\ \A p \in Goroutines : (pc[p] = "waiting") ~> HoldsLock(p)
    /\ \A p \in Goroutines : HoldsLock(p) ~> (pc[p] = "returned" /\ ~HoldsLock(p))
    /\ [](\A p \in Goroutines : HoldsLock(p) <=> InCriticalSection(p))

\* all three callers returned and the mutex is free: a CreateUser succeeded, a
\* second one failed on its email, and an UpdateUser succeeded
C21_Witness ==
    /\ \A p \in Goroutines : pc[p] = "returned"
    /\ \E p, q, r \in Goroutines :
         /\ req[p].op = "create" /\ ret[p].err = ""
         /\ req[q].op = "create" /\ ret[q].err # ""
         /\ req[r].op = "update" /\ ret[r].err = ""
    /\ mutex = [writer |-> NoProc, readers |-> {}]

\* response o answers a request of one of the handlers hs whose id is not an
\* integer of the machine's range
AnswersBadID(o, hs) ==
    /\ o.proc # NoProc
    /\ o.handler \in hs
    /\ ~IntegerIn(o.req.input.idParam, MinInt, MaxInt)

\* C22: with one request served after the other, GET and DELETE of an integer id
\* no live record has are answered 404; DELETE of a live id removes the record
\* and is answered 204; GET of a live id is answered 200 with that record; GET,
\* PUT and DELETE with an id that is not an integer are answered 400 and leave
\* the store as it was.
C22_GetDeleteStatus ==
    [][/\ \A p \in Goroutines :
            (req[p].op \in {"get", "delete"} /\ pc[p] = "locked" /\ pc'[p] # "locked")
            => LET id == req[p].id IN
               IF id \notin LiveIDs
               THEN /\ ret'[p] = RetErr(ErrNotFound(id))
                    /\ UNCHANGED <<users, heap, nextID>>
               ELSE /\ ret'[p].err = ""
                    /\ UNCHANGED <<heap, nextID>>
                    /\ IF req[p].op = "get"
                       THEN users' = users /\ ret'[p].user = users[id]
                       ELSE /\ DOMAIN users' = DOMAIN users \ {id}
                            /\ \A i \in DOMAIN users' : users'[i] = users[i]
       /\ (/\ out'.proc # NoProc
           /\ out'.handler \in {"GetUser", "DeleteUser"}
           /\ IntegerIn(out'.req.input.idParam, MinInt, MaxInt))
          => /\ out'.req.op \in {"get", "delete"}
             /\ out'.req.id = IntegerValue(out'.req.input.idParam)
             /\ out'.status =
                  IF out'.ret.err # "" THEN StatusNotFound
                  ELSE IF out'.handler = "DeleteUser" THEN StatusNoContent
                  ELSE StatusOK
             /\ (out'.handler = "GetUser" /\ out'.ret.err = "")
                => /\ out'.body = heap[users[out'.req.id]]
                   /\ out'.body.ID = out'.req.id
             /\ UNCHANGED <<users, heap, nextID>>
       /\ AnswersBadID(out', {"GetUser", "UpdateUser", "DeleteUser"})
          => /\ out'.status = StatusBadRequest
             /\ out'.req.op = "none"
             /\ UNCHANGED <<users, heap, nextID, pc>>]_vars

\* a DELETE of a live id was answered 204, the record is gone and another is live
C22_Witness ==
    /\ Responded("DeleteUser")
    /\ out.status = StatusNoContent
    /\ out.req.id \notin LiveIDs
    /\ out.req.id \in deletedIDs
    /\ LiveIDs # {}

\* the value v of field f satisfies the field's rule
SatisfiesRule(f, v) ==
    CASE f = "Email" -> v \in WellFormedEmails
      [] f \in {"FirstName", "LastName"} -> Len(v) \in 2..50
      [] f = "Age" -> v \in 1..150
      [] f = "Phone" -> v \in WellFormedPhones
      [] f = "Status" -> v \in {"active", "inactive", "suspended"}

\* every field the partial payload r holds satisfies its rule
PresentFieldsValid(r) ==
    \A f \in UpdateFields : r[f] # Nil => SatisfiesRule(f, Deref(r[f]))

EmptyPayload == UpdatePayload(Nil, Nil, Nil, Nil, Nil, Nil)

\* C23: a PUT (with an integer id and a body that decodes) passes the validation
\* gate exactly when every field its payload holds satisfies the field's rule, so
\* the empty payload always passes; a PUT with the empty payload on a live id is
\* answered 200 and changes nothing but UpdatedAt.
C23_PartialPayloadGate ==
    [][/\ (/\ out'.proc # NoProc
           /\ out'.handler = "UpdateUser"
           /\ out'.req.op = "none"
           /\ IntegerIn(out'.req.input.idParam, MinInt, MaxInt)
           /\ out'.req.input.body.bind)
          => /\ ~PresentFieldsValid(out'.req.input.body.payload)
             /\ out'.req.input.body.payload # EmptyPayload
       /\ \A p \in Goroutines :
            /\ req'[p].op = "update" => PresentFieldsValid(req'[p].payload)
            /\ (/\ req[p].op = "update"
                /\ req[p].payload = EmptyPayload
                /\ req[p].id \in LiveIDs)
               => /\ (pc[p] = "locked" /\ pc'[p] # "locked") => pc'[p] = "checked"
                  /\ (pc[p] = "checked" /\ pc'[p] # "checked")
                     => /\ ret'[p] = RetUser(users[req[p].id])
                        /\ UNCHANGED <<users, nextID>>
                        /\ \A a \in DOMAIN heap :
                             heap'[a] = [heap[a] EXCEPT !.UpdatedAt = heap'[a].UpdatedAt]
                        /\ \A a \in DOMAIN heap :
                             a # users[req[p].id] => heap'[a] = heap[a]
       /\ (/\ out'.proc # NoProc
           /\ out'.handler = "UpdateUser"
           /\ out'.req.op = "update"
           /\ out'.req.payload = EmptyPayload
           /\ out'.req.id \in LiveIDs)
          => /\ out'.status = StatusOK
             /\ out'.body = heap[users[out'.req.id]]]_vars

\* a PUT with the empty payload was answered 200 on one of two live records
C23_Witness ==
    /\ Responded("UpdateUser")
    /\ out.req.op = "update"
    /\ out.req.payload = EmptyPayload
    /\ out.status = StatusOK
    /\ Cardinality(LiveIDs) = 2

\* the statuses the client received so far
SessionStatuses == [k \in DOMAIN session.received |-> session.received[k].status]

\* s is a prefix of t
IsPrefix(s, t) == Len(s) <= Len(t) /\ \A k \in DOMAIN s : s[k] = t[k]

\* C24: on a new server the requests POST (a@x.com), POST (the same), GET
\* /users/1, PUT /users/1 {age 31}, DELETE /users/1, GET /users/1, GET
\* /users?page=2&per_page=10 are answered 201 (id 1, active), 409, 200 (that
\* record), 200 (age 31, the rest unchanged), 204, 404, 200 (no users, total 0).
C24_Session ==
    LET got == session.received
        n == Len(got)
        user == SessionUser.payload
    IN  /\ IsPrefix(SessionStatuses, <<201, 409, 200, 200, 204, 404, 200>>)
        /\ n >= 1 => /\ got[1].body.ID = 1
                     /\ got[1].body.Status = "active"
                     /\ \A f \in CreateFields : got[1].body[f] = user[f]
        /\ n >= 3 => got[3].body = got[1].body
        /\ n >= 4 => /\ got[4].body.Age = 31
                     /\ \A f \in (UpdateFields \ {"Age"}) \cup {"ID", "CreatedAt"} :
                          got[4].body[f] = got[1].body[f]
        /\ n >= 7 => /\ got[7].body.users = <<>>
                     /\ got[7].body.meta.Total = 0
                     /\ got[7].body.meta.Page = 2
                     /\ got[7].body.meta.PerPage = 10

\* the client received the seventh response
C24_Witness ==
    /\ Len(session.received) = 7
    /\ session.received[7].status = StatusOK
    /\ LiveIDs = {}
    /\ nextID = 2

\* the fields of payload r, sent to handler h, that violate their
\* rules: on a POST every field but the phone is required, on a PUT only the
\* fields that are present are looked at
ViolatingFields(h, r) ==
    IF h = "CreateUser"
    THEN {f \in CreateFields :
            IF f = "Phone" THEN r[f] # "" /\ ~SatisfiesRule(f, r[f])
            ELSE ~SatisfiesRule(f, r[f])}
    ELSE {f \in UpdateFields : r[f] # Nil /\ ~SatisfiesRule(f, Deref(r[f]))}

\* the reason reported for a violating field, by the kind of rule that failed
ExpectedReason(h, f, v) ==
    IF h = "CreateUser" /\ (IF f = "Age" THEN v = 0 ELSE v = "")
    THEN "This field is required"
    ELSE CASE f = "Email" -> "Must be a valid email address"
           [] f \in {"FirstName", "LastName"} ->
                IF Len(v) < 2 THEN "Must be at least 2 characters long"
                ELSE "Must be at most 50 characters long"
           [] f = "Age" ->
                IF v < 1 THEN "Must be at least 1 characters long"
                ELSE "Must be at most 150 characters long"
           [] f = "Phone" -> "Must be a valid phone number in E164 format"
           [] f = "Status" -> "Must be one of: active inactive suspended"

\* C25: a validation failure reports every violating field together:
\* validation_errors has one entry for each field of the payload that violates
\* its rules and none for any other field, and the reason of each entry is the
\* one that belongs to the kind of rule that failed.
C25_AllViolationsReported ==
    (/\ out.proc # NoProc
     /\ out.handler \in {"CreateUser", "UpdateUser"}
     /\ out.status = StatusBadRequest
     /\ out.body.error = "Validation failed")
    => LET r == out.req.input.body.payload
           errs == out.body.details.validation_errors
       IN  /\ DOMAIN errs = ViolatingFields(out.handler, r)
           /\ \A f \in DOMAIN errs :
                errs[f] = ExpectedReason(out.handler, f,
                              IF out.handler = "CreateUser" THEN r[f] ELSE Deref(r[f]))

\* a POST that violates the rules of four fields, with four different reasons,
\* and satisfies the rule of the fifth
C25_Witness ==
    /\ Responded("CreateUser")
    /\ out.status = StatusBadRequest
    /\ out.body.error = "Validation failed"
    /\ DOMAIN out.body.details.validation_errors =
          {"Email", "FirstName", "Age", "Phone"}
    /\ out.body.details.validation_errors["FirstName"] # 
          out.body.details.validation_errors["Email"]

\* the step answers a GET /health
AnswersHealth == out' # NoOut /\ out'.handler = "Health"

\* the store as the service holds it: the records, the counter and the lock
StoreState == <<users, heap, nextID, mutex>>

(* C26: GET /health is answered with status 200, status "ok", service and
   version equal to the configured application name and version, and the
   static checks, whatever the store holds and whatever user operations came
   before; the answer is a function of the configuration alone and the store
   is left as it was. *)
C26_Health ==
    [][AnswersHealth =>
          /\ out'.status = StatusOK
          /\ out'.body.Status = "ok"
          /\ out'.body.Service = config.App.Name
          /\ out'.body.Version = config.App.Version
          /\ out'.body.Checks = [database |-> "ok", memory |-> "ok"]
          /\ UNCHANGED StoreState
          /\ UNCHANGED <<pc, req, ret, resp, returned, createdIDs, deletedIDs, config>>]_vars

\* a health answer given while a record is live, after a delete, on a handler
\* whose service name differs from its version
C26_Witness ==
    /\ out # NoOut /\ out.handler = "Health"
    /\ out.status = StatusOK
    /\ LiveIDs # {}
    /\ deletedIDs # {}
    /\ config.App.Name = "test-app" /\ config.App.Version = "2.1.0"
    /\ out.body.Service = "test-app"

(* C27: identifiers are allocated without gaps: the k-th successful CreateUser
   since NewUserService returned identifier k, whatever failed creates, updates,
   deletes, reads and listings ran in between; the counter is one more than the
   number of successful creates and greater than every live identifier. *)
C27_NoGaps ==
    /\ \A k \in DOMAIN createdIDs : createdIDs[k] = k
    /\ nextID = Len(createdIDs) + 1
    /\ \A id \in LiveIDs : id < nextID

\* the second successful create got 2 after the first record was deleted, and a
\* create has failed on the duplicate email
C27_Witness ==
    /\ Len(createdIDs) = 2
    /\ 1 \in deletedIDs
    /\ 2 \in LiveIDs
    /\ \E p \in Procs :
         /\ req[p].op = "create"
         /\ pc[p] = "returned"
         /\ ret[p].err = ErrEmailExists(req[p].payload.Email)

\* the store as a one-at-a-time store holds it: the record of each live id
Records == [id \in DOMAIN users |-> heap[users[id]]]

\* what the call of goroutine p returned: the error, the record behind the
\* returned pointer as it is when the call returns, and the listing
Result(p) ==
    [err |-> ret[p].err,
     user |-> IF ret[p].user # 0 THEN heap[ret[p].user] ELSE NoUser,
     list |-> ret[p].list]

AtomicOutcome(records, counter, err, user, list) ==
    [records |-> records, nextID |-> counter, err |-> err, user |-> user, list |-> list]

\* the outcomes of request r on a store that runs one whole operation at a time,
\* started from the present records and counter
Atomic(r) ==
    CASE r.op = "create" ->
           IF \E id \in DOMAIN Records : Records[id].Email = r.payload.Email
           THEN {AtomicOutcome(Records, nextID, ErrEmailExists(r.payload.Email),
                               NoUser, NoList)}
           ELSE {AtomicOutcome([id \in DOMAIN Records \cup {nextID} |->
                                   IF id = nextID
                                   THEN NewUser(nextID, r.payload, t[1], t[2])
                                   ELSE Records[id]],
                               nextID + 1, "",
                               NewUser(nextID, r.payload, t[1], t[2]), NoList) :
                 t \in {tt \in (0..MaxClock) \X (0..MaxClock) :
                          tt[1] \in Now(clock) /\ tt[2] \in Now(tt[1])}}
      [] r.op = "get" ->
           IF r.id \in DOMAIN Records
           THEN {AtomicOutcome(Records, nextID, "", Records[r.id], NoList)}
           ELSE {AtomicOutcome(Records, nextID, ErrNotFound(r.id), NoUser, NoList)}
      [] r.op = "update" ->
           IF r.id \notin DOMAIN Records
           THEN {AtomicOutcome(Records, nextID, ErrNotFound(r.id), NoUser, NoList)}
           ELSE IF /\ r.payload.Email # Nil
                   /\ Deref(r.payload.Email) # Records[r.id].Email
                   /\ \E other \in DOMAIN Records \ {r.id} :
                         Records[other].Email = Deref(r.payload.Email)
           THEN {AtomicOutcome(Records, nextID,
                               ErrEmailExists(Deref(r.payload.Email)), NoUser, NoList)}
           ELSE {AtomicOutcome([Records EXCEPT ![r.id] = ApplyUpdate(@, r.payload, t)],
                               nextID, "",
                               ApplyUpdate(Records[r.id], r.payload, t), NoList) :
                 t \in Now(clock)}
      [] r.op = "delete" ->
           IF r.id \in DOMAIN Records
           THEN {AtomicOutcome([id \in DOMAIN Records \ {r.id} |-> Records[id]],
                               nextID, "", NoUser, NoList)}
           ELSE {AtomicOutcome(Records, nextID, ErrNotFound(r.id), NoUser, NoList)}
      [] r.op = "list" ->
           {AtomicOutcome(Records, nextID, "", NoUser,
                          ListPage([i \in DOMAIN order |-> users[order[i]]],
                                   r.page, r.perPage)) :
            order \in RangeOrders(users)}

(* C28: every concurrent execution of the store's methods is equivalent to a
   one-at-a-time execution in an order that respects real time. Each call takes
   effect in the one step in which it returns, between its invocation and its
   response: there its result and the store it leaves are an outcome of the
   whole operation run on the store as it stood, no other call is half-way
   through a write at that moment, and no other step changes the records or
   the counter. *)
C28_Linearizable ==
    [][/\ \A p \in Goroutines :
            Returning(p) =>
              /\ AtomicOutcome(Records', nextID', Result(p)'.err, Result(p)'.user,
                               Result(p)'.list) \in Atomic(req[p])
              /\ \A q \in Goroutines \ {p} : pc[q] # "checked"
       /\ (\A p \in Goroutines : ~Returning(p)) =>
              /\ Records' = Records
              /\ nextID' = nextID]_vars

\* an update of a live record has returned while a delete or an update of the
\* same record, called before it returned, waits for the lock
C28_Witness ==
    \E p, q \in Procs :
        /\ p # q
        /\ pc[p] = "returned" /\ req[p].op = "update" /\ ret[p].err = ""
        /\ pc[q] = "waiting" /\ req[q].op \in {"update", "delete"}
        /\ req[q].id = req[p].id

\* the payload of p's UpdateUser carries an email that a live record other than
\* the target holds
EmailHeldByAnother(p) ==
    /\ req[p].payload.Email # Nil
    /\ \E other \in LiveIDs \ {req[p].id} :
          UserAt(other).Email = Deref(req[p].payload.Email)

(* C29: an UpdateUser whose id no live record has, or whose new email another
   live record holds, returns the error and leaves the map, every field of
   every record (the target's UpdatedAt too) and the counter as they were,
   whatever other fields the payload carries; and no UpdateUser that returns
   an error has changed any of them. *)
C29_FailedUpdateChangesNothing ==
    [][\A p \in Goroutines :
         (req[p].op = "update" /\ Returning(p)) =>
            /\ req[p].id \notin LiveIDs =>
                  ret'[p] = RetErr(ErrNotFound(req[p].id))
            /\ (req[p].id \in LiveIDs /\ EmailHeldByAnother(p)) =>
                  ret'[p] = RetErr(ErrEmailExists(Deref(req[p].payload.Email)))
            /\ ret'[p].err # "" =>
                  /\ users' = users
                  /\ heap' = heap
                  /\ nextID' = nextID]_vars

\* an UpdateUser of a live record returned the duplicate error on a payload that
\* also carries another field
C29_Witness ==
    \E p \in Goroutines :
        /\ req[p].op = "update"
        /\ pc[p] = "returned"
        /\ req[p].id \in LiveIDs
        /\ req[p].payload.Email # Nil
        /\ ret[p].err = ErrEmailExists(Deref(req[p].payload.Email))
        /\ req[p].payload.Age # Nil
        /\ UserAt(req[p].id).Age # Deref(req[p].payload.Age)

(* C30: the uniqueness check of UpdateUser leaves out the record that is
   updated: an UpdateUser of a live record whose payload email is the email
   the record has succeeds and returns that record, and an UpdateUser whose
   payload email is held by another live record returns the duplicate error. *)
C30_OwnEmailAllowed ==
    [][\A p \in Goroutines :
         (/\ req[p].op = "update"
          /\ Returning(p)
          /\ req[p].id \in LiveIDs
          /\ req[p].payload.Email # Nil) =>
            /\ Deref(req[p].payload.Email) = UserAt(req[p].id).Email =>
                  /\ ret'[p] = RetUser(users[req[p].id])
                  /\ req[p].id \in DOMAIN users'
                  /\ heap'[users[req[p].id]].Email = Deref(req[p].payload.Email)
            /\ EmailHeldByAnother(p) =>
                  /\ ret'[p].err = ErrEmailExists(Deref(req[p].payload.Email))
                  /\ ret'[p].user = 0]_vars

\* record 1 was updated with the email it has had since it was created, and the
\* update of record 3 to that email was refused
C30_Witness ==
    \E p, q \in Goroutines :
        /\ req[p].op = "update" /\ req[p].id = 1 /\ pc[p] = "returned"
        /\ ret[p].err = ""
        /\ 1 \in LiveIDs
        /\ UserAt(1).Email = Deref(req[p].payload.Email)
        /\ UserAt(1).Age = Deref(req[p].payload.Age)
        /\ req[q].op = "update" /\ req[q].id = 3 /\ pc[q] = "returned"
        /\ ret[q].err = ErrEmailExists(UserAt(1).Email)

\* no live record holds the email
EmailFree(email) == \A id \in LiveIDs : UserAt(id).Email # email

(* C31: an email is free as soon as no live record holds it, also when a
   deleted record held it or a live record held it before an update: a
   CreateUser with a free email succeeds and the record gets the counter's
   value as its id, which no live and no deleted record has; an UpdateUser of
   a live record to an email no other live record holds succeeds. *)
C31_EmailReleased ==
    [][\A p \in Goroutines :
         /\ (req[p].op = "create" /\ Returning(p) /\ EmailFree(req[p].payload.Email)) =>
              /\ ret'[p].err = "" /\ ret'[p].user # 0
              /\ heap'[ret'[p].user].Email = req[p].payload.Email
              /\ heap'[ret'[p].user].ID = nextID
              /\ nextID \notin LiveIDs \cup deletedIDs
              /\ DOMAIN users' = LiveIDs \cup {nextID}
              /\ users'[nextID] = ret'[p].user
         /\ (/\ req[p].op = "update" /\ Returning(p)
             /\ req[p].id \in LiveIDs
             /\ req[p].payload.Email # Nil
             /\ ~EmailHeldByAnother(p)) =>
              /\ ret'[p] = RetUser(users[req[p].id])
              /\ heap'[users[req[p].id]].Email = Deref(req[p].payload.Email)]_vars

\* record 1 was deleted while it held the email the records are created with;
\* record 2 got that email, and record 3 got it while record 2 was live, so
\* after an update of record 2; record 3 has moved to another email and the
\* update of record 2 back to the first email has succeeded
C31_Witness ==
    /\ createdIDs = <<1, 2, 3>>
    /\ deletedIDs = {1}
    /\ heap[1].Email = ReleasePost.payload.Email
    /\ LiveIDs = {2, 3}
    /\ UserAt(2).Email = ReleasePost.payload.Email
    /\ UserAt(3).Email = "c@x.com"
    /\ \E p \in Goroutines :
         /\ pc[p] = "returned" /\ req[p].op = "update" /\ req[p].id = 2
         /\ ret[p].err = ""
         /\ Deref(req[p].payload.Email) = ReleasePost.payload.Email

(* C32: on a store that does not change between the calls, ListUsers is
   deterministic: the two fetches of page 1 with one record per page return
   the same record, and page 1 and page 2 of the two-record store, fetched one
   after the other, hold every live record exactly once. *)
C32_ListDeterministic ==
    LET got == session.received
        n == Len(got)
    IN  /\ n >= 6 => got[6].body.users = got[5].body.users
        /\ n >= 7 =>
             LET pages == got[6].body.users \o got[7].body.users IN
             /\ got[6].body.meta.TotalPages = 2
             /\ Len(pages) = 2
             /\ {pages[i].ID : i \in DOMAIN pages} = {1, 2}

====
